---- MODULE Spec2Model ----
(***************************************************************************)
(* Hegemon's Application (src/src/model.rs): the screen state machine, the *)
(* selection / two-anchor viewport controller, the interval cursor and the *)
(* bounded per-stream value history.                                       *)
(*                                                                         *)
(* The Application is modelled as one record `app` per call: every pure    *)
(* operator below takes the Application as the code finds it and returns   *)
(* the Application as the code leaves it, together with the return value   *)
(* and whether the call panicked.  The actions at the end apply them to    *)
(* the state variables.                                                    *)
(***************************************************************************)
EXTENDS Integers, Sequences, FiniteSets, TLC

VARIABLES running, width, height, screen, streams, selection_index,
          scroll_index, scroll_anchor, interval_index,
          panicked, recorded

app_vars == <<running, width, height, screen, streams, selection_index,
              scroll_index, scroll_anchor, interval_index>>
vars == <<running, width, height, screen, streams, selection_index,
          scroll_index, scroll_anchor, interval_index,
          panicked, recorded>>

(***************************************************************************)
(* Bounds of the exploration.                                              *)
(***************************************************************************)
\* Application::new is given 0..MaxStreams streams.
MaxStreams == 2
\* The same, in the viewport specification.
MaxViewStreams == 5
\* update_streams calls explored by the full specification.
MaxTicks == 1
\* update_streams calls since the last reset_streams explored by the history
\* specification.
MaxSamples == 514
\* Period of the sawtooth the stream doubles produce.
SamplePeriod == 5

\* Terminal sizes (width, height) given to new and resize.  Heights 0 and 1
\* are below the 2 reserved rows, 4 leaves 2 usable rows (less than any
\* entry), 8 leaves 6 and 12 leaves 10.
Sizes == { <<80, 0>>, <<80, 1>>, <<40, 4>>, <<80, 8>>, <<132, 12>> }

(***************************************************************************)
(* Machine integers.  usize is 64 bits wide in the program; the model      *)
(* keeps a 30 bit word, the widest TLC's integers allow with room for the  *)
(* sums below.  Every other quantity of the model (indices, heights) is    *)
(* far below 2^30, so a wrapped difference compares with them exactly as   *)
(* its 64 bit counterpart does.  Arithmetic overflow panics in a build     *)
(* with overflow checks (debug) and wraps in one without (release): the    *)
(* operators take the build as `checked`, and a call that overflows has    *)
(* both outcomes.                                                          *)
(***************************************************************************)
UsizeModulus == 2^30

wrapping_sub(a, b) == (a - b) % UsizeModulus

(***************************************************************************)
(* f64 samples are modelled by integers, with three values set apart for   *)
(* the non-finite ones.  Option<T> is a sequence of length 0 or 1.         *)
(***************************************************************************)
F64_NAN == 0 - 2^20 - 1
F64_INFINITY == 2^20
F64_NEG_INFINITY == 0 - 2^20

is_finite(number) == number \notin {F64_NAN, F64_INFINITY, F64_NEG_INFINITY}

None == <<>>
Some(x) == <<x>>

(***************************************************************************)
(* Program constants.                                                      *)
(***************************************************************************)
VALUE_HISTORY_SIZE == 512

intervals ==
    << [milliseconds |-> 100, tick_spacing |-> 10],
       [milliseconds |-> 200, tick_spacing |-> 10],
       [milliseconds |-> 500, tick_spacing |-> 10],
       [milliseconds |-> 1000, tick_spacing |-> 10],
       [milliseconds |-> 2000, tick_spacing |-> 15],
       [milliseconds |-> 3000, tick_spacing |-> 10],
       [milliseconds |-> 5000, tick_spacing |-> 12],
       [milliseconds |-> 10000, tick_spacing |-> 12],
       [milliseconds |-> 30000, tick_spacing |-> 10],
       [milliseconds |-> 60000, tick_spacing |-> 10],
       [milliseconds |-> 300000, tick_spacing |-> 12] >>

(***************************************************************************)
(* The Stream capability (crate::stream::Stream), supplied by the host.    *)
(* The doubles are sawtooth sources: the stream's own state is its phase,  *)
(* value() yields None at phase 0 and Some(phase) otherwise and advances   *)
(* the phase.  Stream 1 declares min and max, stream 2 only max, stream 3  *)
(* neither, and so on round.                                               *)
(***************************************************************************)
StreamDouble(id) ==
    [ phase |-> id % SamplePeriod,
      min   |-> IF id % 3 = 1 THEN Some(1) ELSE None,
      max   |-> IF id % 3 \in {1, 2} THEN Some(SamplePeriod - 1) ELSE None ]

\* The sample a healthy stream yields next.
stream_value(stream) == IF stream.phase = 0 THEN None ELSE Some(stream.phase)

\* The stream after one value() call.
stream_advance(stream) == [stream EXCEPT !.phase = (@ + 1) % SamplePeriod]

stream_min(stream) == stream.min

stream_max(stream) == stream.max

\* What a stream that breaks its contract may yield instead.
BrokenSamples(stream) ==
    {F64_NAN, F64_INFINITY}
      \cup (IF stream.min # None THEN {stream.min[1] - 1} ELSE {})
      \cup (IF stream.max # None THEN {stream.max[1] + 1} ELSE {})

(***************************************************************************)
(* StreamWrapper                                                           *)
(***************************************************************************)
StreamWrapper_new(stream) ==
    [ stream |-> stream, values |-> <<>>, active |-> TRUE, expanded |-> FALSE ]

\* Rows an entry takes in the list: 3 collapsed, 6 expanded.
stream_height(s) == IF s.expanded THEN 6 ELSE 3

(***************************************************************************)
(* Application                                                             *)
(***************************************************************************)
Application_new(w, h, ss) ==
    [ running         |-> TRUE,
      width           |-> w,
      height          |-> h,
      screen          |-> "Main",
      streams         |-> [i \in 1..Len(ss) |-> StreamWrapper_new(ss[i])],
      selection_index |-> 0,
      scroll_index    |-> 0,
      scroll_anchor   |-> "Top",
      interval_index  |-> 3 ]

interval(app) == intervals[app.interval_index + 1]

IsActive(s) == s.active

active_streams(app) == SelectSeq(app.streams, IsActive)

\* Positions in app.streams of the active entries, in order.
RECURSIVE active_positions(_, _)
active_positions(ss, i) ==
    IF i > Len(ss) THEN <<>>
    ELSE (IF ss[i].active THEN <<i>> ELSE <<>>) \o active_positions(ss, i + 1)

Reverse(s) == [i \in 1..Len(s) |-> s[Len(s) + 1 - i]]

\* Outcome of a call: the Application it leaves, what it returned, whether it
\* panicked (the Application is then as the panic found it) and whether
\* scroll_to_stream ran to its end.
Outcome(app, ret, scrolled) ==
    [app |-> app, ret |-> ret, panic |-> FALSE, scrolled |-> scrolled]

Panic(app) == [app |-> app, ret |-> FALSE, panic |-> TRUE, scrolled |-> FALSE]

\* Mutant of fit_loop: an entry that does not fit is skipped (continue) and
\* the loop goes on to the next one.
RECURSIVE fit_loop_skips(_, _, _, _)
fit_loop_skips(ss, i, stream_count, available_height) ==
    IF i > Len(ss) THEN stream_count
    ELSE LET h == stream_height(ss[i]) IN
         IF h > available_height
         THEN fit_loop_skips(ss, i + 1, stream_count, available_height)
         ELSE fit_loop_skips(ss, i + 1, stream_count + 1, available_height - h)

\* The loop over the slice: how many entries fit in the height budget.
RECURSIVE fit_loop(_, _, _, _)
fit_loop(ss, i, stream_count, available_height) ==
    IF i > Len(ss) THEN stream_count
    ELSE LET h == stream_height(ss[i]) IN
         IF h > available_height THEN stream_count
         ELSE fit_loop(ss, i + 1, stream_count + 1, available_height - h)

\* Mutant of beyond_first: the count is not decremented.
beyond_first_keeps_all(stream_count) == stream_count

\* Only count streams beyond the first.
beyond_first(stream_count) ==
    IF stream_count > 0 THEN stream_count - 1 ELSE stream_count

\* The slice of the active entries the anchor selects (it must not be called
\* when slice_panics).
anchor_slice(active, index, anchor) ==
    IF anchor = "Top"
    THEN SubSeq(active, index + 1, Len(active))
    ELSE Reverse(SubSeq(active, 1, index + 1))

\* active_streams[scroll_index..] panics when scroll_index > len,
\* active_streams[..=scroll_index] when scroll_index >= len.
slice_panics(active, index, anchor) ==
    IF anchor = "Top" THEN index > Len(active) ELSE index >= Len(active)

\* stream_count as scroll_to_stream computes it, on wrapping arithmetic.
visible_count(app) ==
    beyond_first(fit_loop(
        anchor_slice(active_streams(app), app.scroll_index, app.scroll_anchor),
        1, 0, wrapping_sub(app.height, 2)))

\* Indices of the first and last streams that are *completely* visible.
visible_range(app) ==
    LET stream_count == visible_count(app) IN
    IF app.scroll_anchor = "Top"
    THEN [top_index    |-> app.scroll_index,
          bottom_index |-> app.scroll_index + stream_count]
    ELSE [top_index    |-> wrapping_sub(app.scroll_index, stream_count),
          bottom_index |-> app.scroll_index]

\* Mutant of scroll_update: the scroll-down branch re-anchors and forgets to
\* move scroll_index.
scroll_update_forgets_index(app, index, range) ==
    IF index < range.top_index
    THEN [app EXCEPT !.scroll_index = index, !.scroll_anchor = "Top"]
    ELSE IF index > range.bottom_index
    THEN [app EXCEPT !.scroll_anchor = "Bottom"]
    ELSE app

\* Mutant of scroll_update: the view moves one entry towards the target
\* instead of onto it.
scroll_update_one_step(app, index, range) ==
    IF index < range.top_index
    THEN [app EXCEPT !.scroll_index = range.top_index - 1,
                     !.scroll_anchor = "Top"]
    ELSE IF index > range.bottom_index
    THEN [app EXCEPT !.scroll_index = range.bottom_index + 1,
                     !.scroll_anchor = "Bottom"]
    ELSE app

\* Mutant of scroll_update: the scroll-down branch stores the exclusive end
\* of the slice.
scroll_update_exclusive_end(app, index, range) ==
    IF index < range.top_index
    THEN [app EXCEPT !.scroll_index = index, !.scroll_anchor = "Top"]
    ELSE IF index > range.bottom_index
    THEN [app EXCEPT !.scroll_index = index + 1, !.scroll_anchor = "Bottom"]
    ELSE app

\* Mutant of scroll_update: a target above the range anchors it at the bottom
\* and one below the range at the top.
scroll_update_swapped_anchor(app, index, range) ==
    IF index < range.top_index
    THEN [app EXCEPT !.scroll_index = index, !.scroll_anchor = "Bottom"]
    ELSE IF index > range.bottom_index
    THEN [app EXCEPT !.scroll_index = index, !.scroll_anchor = "Top"]
    ELSE app

scroll_update(app, index, range) ==
    IF index < range.top_index
    THEN [app EXCEPT !.scroll_index = index, !.scroll_anchor = "Top"]
    ELSE IF index > range.bottom_index
    THEN [app EXCEPT !.scroll_index = index, !.scroll_anchor = "Bottom"]
    ELSE app

scroll_to_stream(app, index, checked) ==
    IF slice_panics(active_streams(app), app.scroll_index, app.scroll_anchor)
    THEN Panic(app)
    ELSE IF checked /\ app.height < 2
    THEN Panic(app)
    ELSE IF checked /\ app.scroll_anchor = "Bottom"
                    /\ visible_count(app) > app.scroll_index
    THEN Panic(app)
    ELSE Outcome(scroll_update(app, index, visible_range(app)), FALSE, TRUE)

(***************************************************************************)
(* Events (termion::event::Event).  A key event carries its key, a mouse   *)
(* press its button; mouse releases and unsupported sequences carry        *)
(* nothing the Application reads.                                          *)
(***************************************************************************)
Key(k) == [type |-> "Key", arg |-> k]
MousePress(button) == [type |-> "MousePress", arg |-> button]
MouseRelease == [type |-> "MouseRelease", arg |-> ""]
Unsupported == [type |-> "Unsupported", arg |-> ""]

Keys == {"Up", "Down", " ", "s", "+", "-", "q", "Esc", "x"}
MouseButtons == {"WheelUp", "WheelDown", "Left"}
Events == {Key(k) : k \in Keys} \cup {MousePress(b) : b \in MouseButtons}
            \cup {MouseRelease, Unsupported}

\* The call falls through to the final `false`.
Ignored(app) == Outcome(app, FALSE, FALSE)

\* Key::Up on Main
handle_Up(app, checked) ==
    IF app.selection_index > 0
    THEN LET moved == [app EXCEPT !.selection_index = @ - 1]
             r == scroll_to_stream(moved, moved.selection_index, checked)
         IN  IF r.panic THEN r ELSE Outcome(r.app, TRUE, TRUE)
    ELSE Ignored(app)

\* Mutant of handle_Down: the bound is len instead of len - 1.
handle_Down_past_end(app, checked) ==
    LET len == Len(active_streams(app)) IN
    IF app.selection_index < len
    THEN LET moved == [app EXCEPT !.selection_index = @ + 1]
             r == scroll_to_stream(moved, moved.selection_index, checked)
         IN  IF r.panic THEN r ELSE Outcome(r.app, TRUE, TRUE)
    ELSE Ignored(app)

\* Key::Down on Main.  active_streams().len() - 1 underflows with no active
\* stream.
handle_Down(app, checked) ==
    LET len == Len(active_streams(app)) IN
    IF checked /\ len = 0
    THEN Panic(app)
    ELSE IF app.selection_index < wrapping_sub(len, 1)
    THEN LET moved == [app EXCEPT !.selection_index = @ + 1]
             r == scroll_to_stream(moved, moved.selection_index, checked)
         IN  IF r.panic THEN r ELSE Outcome(r.app, TRUE, TRUE)
    ELSE Ignored(app)

\* Key::Char(' ') on Main.  nth(selection_index) of the active entries is
\* unwrapped: None panics.
handle_Space(app, checked) ==
    LET positions == active_positions(app.streams, 1) IN
    IF app.selection_index >= Len(positions)
    THEN Panic(app)
    ELSE LET p == positions[app.selection_index + 1]
             toggled == [app EXCEPT !.streams[p].expanded = ~@]
             r == scroll_to_stream(toggled, toggled.selection_index, checked)
         IN  IF r.panic THEN r ELSE Outcome(r.app, TRUE, TRUE)

\* Key::Char('s') on Main
handle_s(app) == Outcome([app EXCEPT !.screen = "Streams"], TRUE, FALSE)

\* Mutant of handle_Plus: the bound is len instead of len - 1.
handle_Plus_past_end(app) ==
    IF app.interval_index < Len(intervals)
    THEN Outcome([app EXCEPT !.interval_index = @ + 1], TRUE, FALSE)
    ELSE Ignored(app)

\* Key::Char('+') on Main
handle_Plus(app) ==
    IF app.interval_index < Len(intervals) - 1
    THEN Outcome([app EXCEPT !.interval_index = @ + 1], TRUE, FALSE)
    ELSE Ignored(app)

\* Key::Char('-') on Main
handle_Minus(app) ==
    IF app.interval_index > 0
    THEN Outcome([app EXCEPT !.interval_index = @ - 1], TRUE, FALSE)
    ELSE Ignored(app)

\* Key::Char('q') on Main
handle_q(app) == Outcome([app EXCEPT !.running = FALSE], TRUE, FALSE)

\* Screen::Main, Event::Key
handle_Main_key(app, key, checked) ==
    CASE key = "Up"   -> handle_Up(app, checked)
      [] key = "Down" -> handle_Down(app, checked)
      [] key = " "    -> handle_Space(app, checked)
      [] key = "s"    -> handle_s(app)
      [] key = "+"    -> handle_Plus(app)
      [] key = "-"    -> handle_Minus(app)
      [] key = "q"    -> handle_q(app)
      [] OTHER        -> Ignored(app)

RECURSIVE handle(_, _, _)

\* Screen::Main, Event::Mouse(MouseEvent::Press): the wheel re-dispatches
\* through handle as the opposite arrow key.
\* Mutant of handle_Main_mouse: the wheel is not inverted (WheelUp is Key::Up).
handle_Main_mouse_same_way(app, button, checked) ==
    CASE button = "WheelUp"   -> handle(app, Key("Up"), checked)
      [] button = "WheelDown" -> handle(app, Key("Down"), checked)
      [] OTHER                -> Ignored(app)

handle_Main_mouse(app, button, checked) ==
    CASE button = "WheelUp"   -> handle(app, Key("Down"), checked)
      [] button = "WheelDown" -> handle(app, Key("Up"), checked)
      [] OTHER                -> Ignored(app)

\* Screen::Streams
\* Mutant of handle_Streams: every key, not only Esc, leaves the screen.
handle_Streams_any_key(app, event) ==
    IF event.type = "Key"
    THEN Outcome([app EXCEPT !.screen = "Main"], TRUE, FALSE)
    ELSE Ignored(app)

\* Mutant of handle_Streams: 'q' stops the program on this screen too.
handle_Streams_quits(app, event) ==
    IF event.type = "Key" /\ event.arg = "Esc"
    THEN Outcome([app EXCEPT !.screen = "Main"], TRUE, FALSE)
    ELSE IF event.type = "Key" /\ event.arg = "q"
    THEN Outcome([app EXCEPT !.running = FALSE], TRUE, FALSE)
    ELSE Ignored(app)

\* Mutant of handle_Streams: '+' and '-' move the interval cursor as on Main.
handle_Streams_plus_minus(app, event) ==
    IF event.type = "Key" /\ event.arg = "Esc"
    THEN Outcome([app EXCEPT !.screen = "Main"], TRUE, FALSE)
    ELSE IF event.type = "Key" /\ event.arg = "+" THEN handle_Plus(app)
    ELSE IF event.type = "Key" /\ event.arg = "-" THEN handle_Minus(app)
    ELSE Ignored(app)

handle_Streams(app, event) ==
    IF event.type = "Key" /\ event.arg = "Esc"
    THEN Outcome([app EXCEPT !.screen = "Main"], TRUE, FALSE)
    ELSE Ignored(app)

handle(app, event, checked) ==
    IF app.screen = "Main"
    THEN CASE event.type = "Key"        -> handle_Main_key(app, event.arg, checked)
           [] event.type = "MousePress" -> handle_Main_mouse(app, event.arg, checked)
           [] OTHER                     -> Ignored(app)
    ELSE handle_Streams(app, event)

resize(app, w, h) == [app EXCEPT !.width = w, !.height = h]

(***************************************************************************)
(* update_streams.  `fault` names the entry (0: none) whose stream breaks  *)
(* its contract in this call, and what it yields.                          *)
(***************************************************************************)
\* Mutant of contract_holds: the assertion on the declared max is missing.
contract_holds_without_max(stream, value) ==
    value # None =>
        /\ is_finite(value[1])
        /\ (stream_min(stream) # None => value[1] >= stream_min(stream)[1])

\* The assertions on a present value.
contract_holds(stream, value) ==
    value # None =>
        /\ is_finite(value[1])
        /\ (stream_min(stream) # None => value[1] >= stream_min(stream)[1])
        /\ (stream_max(stream) # None => value[1] <= stream_max(stream)[1])

\* Mutant of record: the newest element is evicted (pop_back).
record_pops_back(values, value) ==
    LET pushed == Append(values, value) IN
    IF Len(pushed) > VALUE_HISTORY_SIZE
    THEN SubSeq(pushed, 1, Len(pushed) - 1) ELSE pushed

\* push_back, then pop_front once the history is over its size.
record(values, value) ==
    LET pushed == Append(values, value) IN
    IF Len(pushed) > VALUE_HISTORY_SIZE THEN Tail(pushed) ELSE pushed

\* Mutant of update_loop: the test of `active` is missing.
RECURSIVE update_loop_polls_inactive(_, _, _, _)
update_loop_polls_inactive(ss, pushed, i, fault) ==
    IF i > Len(ss) THEN [streams |-> ss, pushed |-> pushed, panic |-> FALSE]
    ELSE LET value == IF fault.who = i THEN Some(fault.value)
                      ELSE stream_value(ss[i].stream)
             polled == [ss EXCEPT ![i].stream = stream_advance(@)]
         IN  IF ~contract_holds(ss[i].stream, value)
             THEN [streams |-> polled, pushed |-> pushed, panic |-> TRUE]
             ELSE update_loop_polls_inactive(
                    [polled EXCEPT ![i].values = record(@, value)],
                    [pushed EXCEPT ![i] = <<value>>], i + 1, fault)

\* The loop from entry i on.  `pushed` collects, per entry, what was appended
\* to its values (nothing, or one Option).
RECURSIVE update_loop(_, _, _, _)
update_loop(ss, pushed, i, fault) ==
    IF i > Len(ss) THEN [streams |-> ss, pushed |-> pushed, panic |-> FALSE]
    ELSE IF ~ss[i].active THEN update_loop(ss, pushed, i + 1, fault)
    ELSE LET value == IF fault.who = i THEN Some(fault.value)
                      ELSE stream_value(ss[i].stream)
             polled == [ss EXCEPT ![i].stream = stream_advance(@)]
         IN  IF ~contract_holds(ss[i].stream, value)
             THEN [streams |-> polled, pushed |-> pushed, panic |-> TRUE]
             ELSE update_loop(
                    [polled EXCEPT ![i].values = record(@, value)],
                    [pushed EXCEPT ![i] = <<value>>], i + 1, fault)

update_streams(app, fault) ==
    LET r == update_loop(app.streams, [i \in 1..Len(app.streams) |-> <<>>], 1, fault)
    IN  [app |-> [app EXCEPT !.streams = r.streams],
         pushed |-> r.pushed, panic |-> r.panic]

\* Mutant of reset_streams: only the active entries are cleared.
reset_streams_active_only(app) ==
    [app EXCEPT !.streams = [i \in 1..Len(app.streams) |->
        IF app.streams[i].active
        THEN [app.streams[i] EXCEPT !.values = <<>>]
        ELSE app.streams[i]]]

reset_streams(app) ==
    [app EXCEPT !.streams = [i \in 1..Len(app.streams) |->
                                [app.streams[i] EXCEPT !.values = <<>>]]]

NoFault == [who |-> 0, value |-> 0]

Faults(ss) ==
    {NoFault} \cup
    UNION { {[who |-> i, value |-> v] : v \in BrokenSamples(ss[i].stream)}
            : i \in 1..Len(ss) }

(***************************************************************************)
(* The state machine.                                                      *)
(*   panicked         the process has panicked (it takes no further step)  *)
(*   recorded         per entry, every sample appended since the last      *)
(*                    reset_streams, evicted ones included                 *)
(***************************************************************************)
App ==
    [ running         |-> running,
      width           |-> width,
      height          |-> height,
      screen          |-> screen,
      streams         |-> streams,
      selection_index |-> selection_index,
      scroll_index    |-> scroll_index,
      scroll_anchor   |-> scroll_anchor,
      interval_index  |-> interval_index ]

Becomes(app) ==
    /\ running' = app.running
    /\ width' = app.width
    /\ height' = app.height
    /\ screen' = app.screen
    /\ streams' = app.streams
    /\ selection_index' = app.selection_index
    /\ scroll_index' = app.scroll_index
    /\ scroll_anchor' = app.scroll_anchor
    /\ interval_index' = app.interval_index

\* The states Application::new returns, for up to `most` streams.
New(most) ==
    \E size \in Sizes, n \in 0..most :
        LET app == Application_new(size[1], size[2],
                                   [i \in 1..n |-> StreamDouble(i)])
        IN  /\ running = app.running
            /\ width = app.width
            /\ height = app.height
            /\ screen = app.screen
            /\ streams = app.streams
            /\ selection_index = app.selection_index
            /\ scroll_index = app.scroll_index
            /\ scroll_anchor = app.scroll_anchor
            /\ interval_index = app.interval_index
            /\ panicked = FALSE
            /\ recorded = [i \in 1..n |-> <<>>]

Init == New(MaxStreams)

\* handle(event)
Handle(event) ==
    /\ ~panicked
    /\ \E r \in {handle(App, event, checked) : checked \in BOOLEAN} :
        /\ Becomes(r.app)
        /\ panicked' = r.panic
    /\ UNCHANGED recorded

\* resize(w, h)
Resize(w, h) ==
    /\ ~panicked
    /\ Becomes(resize(App, w, h))
    /\ UNCHANGED <<panicked, recorded>>

\* update_streams(), the streams answering as `fault` says
UpdateStreams(fault) ==
    /\ ~panicked
    /\ LET r == update_streams(App, fault) IN
        /\ Becomes(r.app)
        /\ panicked' = r.panic
        /\ recorded' = [i \in 1..Len(recorded) |-> recorded[i] \o r.pushed[i]]

\* reset_streams()
ResetStreams ==
    /\ ~panicked
    /\ Becomes(reset_streams(App))
    /\ recorded' = [i \in 1..Len(recorded) |-> <<>>]
    /\ UNCHANGED panicked

\* No entry has recorded `bound` samples since the last reset.
Below(bound) == \A i \in 1..Len(recorded) : Len(recorded[i]) < bound

HandleEvent == \E event \in Events : Handle(event)

ResizeTerminal == \E size \in Sizes : Resize(size[1], size[2])

\* value() calls stream i has answered (fewer than SamplePeriod).
Polled(i) == (streams[i].stream.phase - StreamDouble(i).phase) % SamplePeriod

Tick ==
    /\ \A i \in 1..Len(streams) : Polled(i) < MaxTicks
    /\ \E fault \in Faults(streams) : UpdateStreams(fault)

Next == HandleEvent \/ ResizeTerminal \/ Tick \/ ResetStreams

Spec == Init /\ [][Next]_vars

(***************************************************************************)
(* The viewport specification: the events that reach scroll_to_stream and  *)
(* resize, on longer lists.                                                *)
(***************************************************************************)
ViewEvents ==
    {Key("Up"), Key("Down"), Key(" "), MousePress("WheelUp"),
     MousePress("WheelDown")}

InitView == New(MaxViewStreams)

HandleViewEvent == \E event \in ViewEvents : Handle(event)

\* The viewport specification also resizes to height 7: 5 usable rows, fewer
\* than an expanded entry takes and more than a collapsed one does.
ViewSizes == Sizes \cup { <<80, 7>> }

ResizeView == \E size \in ViewSizes : Resize(size[1], size[2])

NextView == HandleViewEvent \/ ResizeView

SpecView == InitView /\ [][NextView]_vars

(***************************************************************************)
(* The history specification: timer ticks and resets alone, long enough    *)
(* for the history to overflow.                                            *)
(***************************************************************************)
LongTick ==
    Below(MaxSamples) /\ \E fault \in Faults(streams) : UpdateStreams(fault)

NextHistory == LongTick \/ ResetStreams

SpecHistory == Init /\ [][NextHistory]_vars

(***************************************************************************)
(* Properties                                                              *)
(***************************************************************************)
ActiveCount == Len(active_streams(App))

\* The selection lies in the range visible_range reports for `app`.
InRange(app) ==
    LET range == visible_range(app) IN
    /\ range.top_index <= app.selection_index
    /\ app.selection_index <= range.bottom_index

\* This step moved the selection or toggled an entry: the steps of handle that
\* call scroll_to_stream (Up, Down, Space and the wheel) and no others.
ScrollStep ==
    \/ selection_index' # selection_index
    \/ \E i \in 1..Len(streams) : streams'[i].expanded # streams[i].expanded

\* C1  Viewport visibility: with at least one active stream, every step in
\* which scroll_to_stream ran to its end (a select or an expand/collapse,
\* whatever resizes came before) ends in a state whose visible range,
\* recomputed from the new scroll_index, scroll_anchor, heights and terminal
\* height, holds the selection.
C1_ViewportVisibility ==
    [][(ActiveCount > 0 /\ ~panicked' /\ ScrollStep) => InRange(App')]_vars

\* C1 witness: the selected entry was expanded to 6 rows and the view had to
\* re-anchor at the bottom on it.
C1_Witness ==
    /\ ~panicked
    /\ selection_index > 1
    /\ height - 2 >= 6
    /\ active_streams(App)[selection_index + 1].expanded
    /\ \A i \in 1..selection_index : ~active_streams(App)[i].expanded
    /\ scroll_anchor = "Bottom"
    /\ scroll_index = selection_index
    /\ InRange(App)

\* C2  Idempotence: in every reachable state and for every target t among the
\* active entries, a second scroll_to_stream(t) right after the first leaves
\* scroll_index and scroll_anchor (and all the rest) as the first left them.
C2_Idempotent ==
    ~panicked =>
        \A t \in 0..(ActiveCount - 1), checked \in BOOLEAN :
            LET first == scroll_to_stream(App, t, checked) IN
            ~first.panic =>
                LET second == scroll_to_stream(first.app, t, checked) IN
                /\ ~second.panic
                /\ second.app = first.app

\* C2 witness: a state the algorithm has already re-anchored, in which a
\* first call for some target does move the view.
C2_Witness ==
    /\ ~panicked
    /\ scroll_anchor = "Bottom"
    /\ \E t \in 0..(ActiveCount - 1) :
        LET first == scroll_to_stream(App, t, FALSE) IN
        /\ ~first.panic
        /\ first.app.scroll_index # scroll_index
        /\ first.app.scroll_anchor = "Top"

\* C3  Selection invariant: whenever there is an active stream, after every
\* call (handle on either screen, resize, update_streams, reset_streams)
\* 0 <= selection_index < count(active streams).
C3_SelectionInBounds ==
    ActiveCount > 0 => (0 <= selection_index /\ selection_index < ActiveCount)

\* C3 witness: Down has taken the selection to the last of several entries,
\* on the Streams screen after a tick.
C3_Witness ==
    /\ ~panicked
    /\ ActiveCount > 1
    /\ selection_index = ActiveCount - 1
    /\ screen = "Streams"
    /\ \E i \in 1..Len(streams) : Len(streams[i].values) > 0

\* C4  Scroll-index validity: whenever there is an active stream,
\* scroll_index is an index into the active entries, one of the two anchors
\* is in force and the slice the anchor selects exists.
C4_ScrollIndexValid ==
    ActiveCount > 0 =>
        /\ 0 <= scroll_index /\ scroll_index < ActiveCount
        /\ scroll_anchor \in {"Top", "Bottom"}
        /\ ~slice_panics(active_streams(App), scroll_index, scroll_anchor)

\* C4 witness: the view is anchored at the bottom on the last entry.
C4_Witness ==
    /\ ~panicked
    /\ ActiveCount > 1
    /\ scroll_anchor = "Bottom"
    /\ scroll_index = ActiveCount - 1

\* C5  Resize re-evaluates the viewport: with at least one active stream,
\* every step that changes the terminal size ends with the selection inside
\* the range visible under the new height.
C5_ResizeKeepsSelectionVisible ==
    [][(ActiveCount > 0 /\ (width' # width \/ height' # height))
          => InRange(App')]_vars

\* C6  No spurious redraw: in every reachable state, an event for which
\* handle returns true changes some field of the Application.
C6_NoSpuriousRedraw ==
    ~panicked =>
        \A event \in Events, checked \in BOOLEAN :
            LET r == handle(App, event, checked) IN
            r.ret => r.app # App

\* C7  Zero-active-streams guard: with no active stream, no step taken on the
\* Main screen panics or changes selection_index, scroll_index or
\* scroll_anchor.
C7_EmptyListGuarded ==
    [][(ActiveCount = 0 /\ screen = "Main")
          => /\ ~panicked'
             /\ UNCHANGED <<selection_index, scroll_index, scroll_anchor>>]_vars

\* The usable height (terminal height minus 2) is smaller than every active
\* entry's height.
TinyViewport ==
    \A i \in 1..ActiveCount : height - 2 < stream_height(active_streams(App)[i])

\* C8  Tiny-viewport guard: while the usable height is smaller than the
\* smallest entry, no step panics or changes scroll_index or scroll_anchor.
C8_TinyViewportGuarded ==
    [][(ActiveCount > 0 /\ TinyViewport)
          => /\ ~panicked'
             /\ UNCHANGED <<scroll_index, scroll_anchor>>]_vars

\* The last k elements of s (all of s when it has no more).
Suffix(s, k) == IF Len(s) <= k THEN s ELSE SubSeq(s, Len(s) - k + 1, Len(s))

\* C9  History bound and FIFO eviction: every entry holds at most 512 values,
\* and they are the most recent 512 (or all, when fewer) of the samples
\* recorded since the last reset, absent ones included, in their order.
C9_HistoryBoundedFifo ==
    \A i \in 1..Len(streams) :
        /\ Len(streams[i].values) <= 512
        /\ streams[i].values = Suffix(recorded[i], 512)

\* C9 witness: an entry has recorded more than 512 samples since the last
\* reset and holds 512 of them, the oldest evicted.
C9_Witness ==
    \E i \in 1..Len(streams) :
        /\ Len(recorded[i]) > 512
        /\ Len(streams[i].values) = 512
        /\ streams[i].values[1] # recorded[i][1]

\* C10  Interval cursor: there are 11 presets and new starts at index 3, the
\* 1000 ms one; interval_index stays within 0..10; on Main '+' adds exactly
\* one below the last index and nothing at it, '-' subtracts exactly one
\* above 0 and nothing at 0.
C10_IntervalCursor ==
    /\ Len(intervals) = 11
    /\ interval(Application_new(80, 24, <<>>)).milliseconds = 1000
    /\ 0 <= interval_index /\ interval_index < Len(intervals)
    /\ (~panicked /\ screen = "Main") =>
        \A checked \in BOOLEAN :
            /\ handle(App, Key("+"), checked).app.interval_index
                 = IF interval_index = Len(intervals) - 1
                   THEN interval_index ELSE interval_index + 1
            /\ handle(App, Key("-"), checked).app.interval_index
                 = IF interval_index = 0 THEN 0 ELSE interval_index - 1

\* C10 witness: '+' has taken the cursor from 3 to the last preset.
C10_Witness ==
    /\ ~panicked
    /\ screen = "Main"
    /\ interval_index = Len(intervals) - 1

(***************************************************************************)
(* update_streams and reset_streams.                                       *)
(***************************************************************************)
\* Numbers a stream may be made to yield: the non-finite ones and numbers
\* below, at, between and above the declared bounds of the doubles.
ProbeSamples ==
    {F64_NAN, F64_INFINITY, F64_NEG_INFINITY,
     0 - 1, 0, 1, SamplePeriod - 1, SamplePeriod}

\* `number` breaks the contract `stream` declares.
Breaks(stream, number) ==
    \/ ~is_finite(number)
    \/ stream_min(stream) # None /\ number < stream_min(stream)[1]
    \/ stream_max(stream) # None /\ number > stream_max(stream)[1]

\* C11  Contract violation is fatal: whenever an active entry's stream yields
\* a present number that is non-finite, below its declared min or above its
\* declared max, update_streams aborts and that entry's values are left as
\* they were (nothing appended, nothing clamped); a present number within
\* the contract, and an absent value, are appended as they are.
C11_ContractViolationFatal ==
    ~panicked =>
      /\ \A i \in 1..Len(streams), number \in ProbeSamples :
            LET r == update_streams(App, [who |-> i, value |-> number])
                before == streams[i].values
                after == r.app.streams[i].values
            IN  IF Breaks(streams[i].stream, number)
                THEN /\ r.panic
                     /\ after = before
                     /\ r.pushed[i] = <<>>
                ELSE /\ ~r.panic
                     /\ r.pushed[i] = <<Some(number)>>
                     /\ after = Suffix(Append(before, Some(number)),
                                       VALUE_HISTORY_SIZE)
      /\ LET r == update_streams(App, NoFault) IN
          /\ ~r.panic
          /\ \A i \in 1..Len(streams) :
                stream_value(streams[i].stream) = None =>
                    /\ r.pushed[i] = <<None>>
                    /\ r.app.streams[i].values
                         = Suffix(Append(streams[i].values, None),
                                  VALUE_HISTORY_SIZE)

\* C11 witness: update_streams has aborted at the second entry: the first
\* entry's sample was appended, the second stream was asked for its value
\* and nothing was appended for it.
C11_Witness ==
    /\ panicked
    /\ Len(streams) = 2
    /\ Len(recorded[1]) = 1
    /\ streams[1].values = recorded[1]
    /\ Polled(2) = 1
    /\ recorded[2] = <<>>
    /\ streams[2].values = <<>>

\* `app` with the `active` field of the entries in `off` cleared.  The field
\* is public and no method of Application writes it, so an entry is inactive
\* only when the host has cleared the field.
Deactivated(app, off) ==
    [app EXCEPT !.streams = [i \in 1..Len(app.streams) |->
        [app.streams[i] EXCEPT !.active = (i \notin off)]]]

\* C12  Inactive entries are frozen: whichever entries are inactive, one
\* update_streams call appends exactly one element, the sample its stream
\* yields (absent or present), to the values of every active entry, evicting
\* the oldest at capacity, and leaves every inactive entry as it was: values
\* neither grown nor cleared, stream not asked.
C12_InactiveFrozen ==
    ~panicked =>
      \A off \in SUBSET (1..Len(streams)) :
        LET app == Deactivated(App, off)
            r == update_streams(app, NoFault)
        IN  /\ ~r.panic
            /\ \A i \in 1..Len(streams) :
                  IF i \in off
                  THEN /\ r.app.streams[i] = app.streams[i]
                       /\ r.app.streams[i].values = streams[i].values
                       /\ r.pushed[i] = <<>>
                  ELSE /\ r.pushed[i] = <<stream_value(streams[i].stream)>>
                       /\ r.app.streams[i].values
                            = Suffix(streams[i].values \o r.pushed[i],
                                     VALUE_HISTORY_SIZE)
                       /\ r.app.streams[i].active

\* C12 witness: two update_streams calls have each appended one element to
\* both entries, one of them an absent sample.
C12_Witness ==
    /\ ~panicked
    /\ Len(streams) = 2
    /\ \A i \in 1..2 : /\ Len(streams[i].values) = 2
                        /\ streams[i].values = recorded[i]
    /\ \E i \in 1..2 : None \in {streams[i].values[1], streams[i].values[2]}

\* C13  reset_streams empties the values of every entry, whichever entries
\* are active or inactive, and changes nothing else: each entry keeps its
\* active and expanded flags (and its stream), and selection_index,
\* scroll_index, scroll_anchor, screen, interval_index and running are as
\* before.
C13_ResetClearsOnlyValues ==
    ~panicked =>
      \A off \in SUBSET (1..Len(streams)) :
        LET app == Deactivated(App, off)
            after == reset_streams(app)
        IN  /\ Len(after.streams) = Len(app.streams)
            /\ \A i \in 1..Len(app.streams) :
                  /\ after.streams[i].values = <<>>
                  /\ after.streams[i].active = app.streams[i].active
                  /\ after.streams[i].expanded = app.streams[i].expanded
                  /\ after.streams[i].stream = app.streams[i].stream
            /\ after.selection_index = app.selection_index
            /\ after.scroll_index = app.scroll_index
            /\ after.scroll_anchor = app.scroll_anchor
            /\ after.screen = app.screen
            /\ after.interval_index = app.interval_index
            /\ after.running = app.running
            /\ [after EXCEPT !.streams = app.streams] = app

\* C13 witness: reset_streams has emptied the history of an entry whose
\* stream had been asked for a sample, in a state where the selection, the
\* scroll position, an expanded flag, the interval and running had all left
\* their initial values, and they are still so.
C13_Witness ==
    /\ ~panicked
    /\ Len(streams) = 2
    /\ \A i \in 1..2 : Polled(i) = 1 /\ streams[i].values = <<>>
    /\ streams[2].expanded
    /\ selection_index = 1
    /\ scroll_index = 1
    /\ scroll_anchor = "Bottom"
    /\ interval_index # 3
    /\ ~running

(***************************************************************************)
(* Events, screens and the stop flag.                                      *)
(***************************************************************************)
\* C14  Wheel aliasing: on the Main screen, in either build, a WheelUp press
\* gives exactly the outcome of Key::Down (same state, same return value,
\* same abort) and a WheelDown press exactly that of Key::Up; a press of any
\* other button, and a release, change nothing and return false.
C14_WheelAliasing ==
    (~panicked /\ screen = "Main") =>
      \A checked \in BOOLEAN :
        /\ handle(App, MousePress("WheelUp"), checked)
             = handle(App, Key("Down"), checked)
        /\ handle(App, MousePress("WheelDown"), checked)
             = handle(App, Key("Up"), checked)
        /\ \A button \in MouseButtons \ {"WheelUp", "WheelDown"} :
             LET r == handle(App, MousePress(button), checked) IN
             r.app = App /\ ~r.ret /\ ~r.panic
        /\ LET r == handle(App, MouseRelease, checked) IN
           r.app = App /\ ~r.ret /\ ~r.panic

\* C14 witness: on Main, the selection having been moved to the second of
\* two entries, a WheelDown press moves it one up and a WheelUp press one
\* down again, both returning true.
C14_Witness ==
    /\ ~panicked
    /\ screen = "Main"
    /\ ActiveCount = 2
    /\ selection_index = 1
    /\ height >= 2
    /\ LET up == handle(App, MousePress("WheelDown"), TRUE)
           down == handle(up.app, MousePress("WheelUp"), TRUE)
       IN  /\ up.ret /\ ~up.panic /\ up.app.selection_index = 0
           /\ down.ret /\ ~down.panic /\ down.app.selection_index = 1

\* C15  Screen state machine: new starts on Main; handle changes the screen
\* in two cases only, 's' on Main (to Streams) and Esc on Streams (to Main),
\* and returns true in both; every other event on either screen (Esc on
\* Main and 's' on Streams among them), resize, update_streams (healthy or
\* aborting) and reset_streams leave the screen as it is.
C15_ScreenMachine ==
    /\ \A size \in Sizes, n \in 0..MaxStreams :
         Application_new(size[1], size[2],
                         [i \in 1..n |-> StreamDouble(i)]).screen = "Main"
    /\ screen \in {"Main", "Streams"}
    /\ ~panicked =>
         /\ \A event \in Events, checked \in BOOLEAN :
              LET r == handle(App, event, checked) IN
              IF screen = "Main" /\ event = Key("s")
              THEN r.app.screen = "Streams" /\ r.ret /\ ~r.panic
              ELSE IF screen = "Streams" /\ event = Key("Esc")
              THEN r.app.screen = "Main" /\ r.ret /\ ~r.panic
              ELSE r.app.screen = screen
         /\ \A size \in Sizes : resize(App, size[1], size[2]).screen = screen
         /\ \A fault \in Faults(streams) :
              update_streams(App, fault).app.screen = screen
         /\ reset_streams(App).screen = screen

\* C15 witness: the Streams screen has been entered (by 's', from Main) and
\* Esc leads back to Main.
C15_Witness ==
    /\ ~panicked
    /\ running
    /\ screen = "Streams"
    /\ handle(App, Key("Esc"), TRUE).app.screen = "Main"

(***************************************************************************)
(* The viewport algorithm.                                                 *)
(***************************************************************************)
\* C16  Scenario: with 5 active entries of height 3 each, terminal height 12,
\* scroll_index 0 and anchor Top, the completely visible range is 0..2, and
\* scroll_to_stream with target 4 sets scroll_index to 4 and the anchor to
\* Bottom, in either build.
C16_Scenario ==
    ( /\ ~panicked
      /\ ActiveCount = 5
      /\ \A i \in 1..5 : stream_height(active_streams(App)[i]) = 3
      /\ height = 12
      /\ scroll_index = 0
      /\ scroll_anchor = "Top" )
    => /\ visible_range(App) = [top_index |-> 0, bottom_index |-> 2]
       /\ \A checked \in BOOLEAN :
            LET r == scroll_to_stream(App, 4, checked) IN
            /\ ~r.panic
            /\ r.app.scroll_index = 4
            /\ r.app.scroll_anchor = "Bottom"

\* C16 witness: the scenario's state, after two Key::Down from the start:
\* the selection is at 2, still inside the range 0..2, so the list has not
\* scrolled.
C16_Witness ==
    /\ ~panicked
    /\ ActiveCount = 5
    /\ \A i \in 1..5 : stream_height(active_streams(App)[i]) = 3
    /\ height = 12
    /\ scroll_index = 0
    /\ scroll_anchor = "Top"
    /\ selection_index = 2

\* C17  Minimal scroll decision: a scroll_to_stream(t) that runs to its end
\* sets (scroll_index, scroll_anchor) to (t, Top) when t is above the range
\* that is completely visible, to (t, Bottom) when t is below it, and leaves
\* both as they were when t is inside it; selection_index, the entries (and
\* so their heights) and everything else are as before in all three cases.
C17_MinimalScroll ==
    ~panicked =>
      \A t \in 0..(ActiveCount - 1), checked \in BOOLEAN :
        LET r == scroll_to_stream(App, t, checked)
            range == visible_range(App)
        IN  ~r.panic =>
              /\ IF t < range.top_index
                 THEN r.app.scroll_index = t /\ r.app.scroll_anchor = "Top"
                 ELSE IF t > range.bottom_index
                 THEN r.app.scroll_index = t /\ r.app.scroll_anchor = "Bottom"
                 ELSE /\ r.app.scroll_index = scroll_index
                      /\ r.app.scroll_anchor = scroll_anchor
              /\ r.app.selection_index = selection_index
              /\ r.app.streams = streams
              /\ [r.app EXCEPT !.scroll_index = scroll_index,
                               !.scroll_anchor = scroll_anchor] = App

\* C17 witness: the list is scrolled to its middle with room for two
\* entries, so that there is a target above the visible range, one inside
\* it and one below it.
C17_Witness ==
    /\ ~panicked
    /\ ActiveCount = 5
    /\ height >= 2
    /\ LET range == visible_range(App) IN
       /\ 0 < range.top_index
       /\ range.top_index < range.bottom_index
       /\ range.bottom_index < 4
       /\ scroll_to_stream(App, 0, TRUE).app.scroll_anchor = "Top"
       /\ scroll_to_stream(App, 0, TRUE).app.scroll_index = 0
       /\ scroll_to_stream(App, 4, TRUE).app.scroll_anchor = "Bottom"
       /\ scroll_to_stream(App, 4, TRUE).app.scroll_index = 4
       /\ scroll_to_stream(App, range.top_index, TRUE).app = App

(***************************************************************************)
(* The stop flag and the Streams screen.                                   *)
(***************************************************************************)
\* C18  Stop signal: new sets running; handle leaves running as it is for
\* every event but 'q' on Main, which clears it; nothing on the Streams
\* screen ('q' included), no resize, no update_streams and no reset_streams
\* changes it; so once it is false it stays false.
C18_StopSignal ==
    /\ \A size \in Sizes, n \in 0..MaxStreams :
         Application_new(size[1], size[2],
                         [i \in 1..n |-> StreamDouble(i)]).running
    /\ ~panicked =>
         /\ \A event \in Events, checked \in BOOLEAN :
              LET r == handle(App, event, checked) IN
              /\ r.app.running
                   = IF screen = "Main" /\ event = Key("q")
                     THEN FALSE ELSE running
              /\ ~running => ~r.app.running
         /\ \A size \in Sizes : resize(App, size[1], size[2]).running = running
         /\ \A fault \in Faults(streams) :
              update_streams(App, fault).app.running = running
         /\ reset_streams(App).running = running

\* C18 witness: 'q' on Main has cleared running, the Streams screen has
\* been entered and the streams have been polled; running is false.
C18_Witness ==
    /\ ~panicked
    /\ ~running
    /\ screen = "Streams"
    /\ Len(streams) > 0
    /\ \A i \in 1..Len(streams) : Len(recorded[i]) = 1

RECURSIVE RowsTaken(_, _, _)
RowsTaken(active, first, last) ==
    IF first > last THEN 0
    ELSE stream_height(active[first + 1]) + RowsTaken(active, first + 1, last)

\* The range visible_range reports for `app` lies within the list and its
\* entries together take no more than the usable rows.
RangeFits(app) ==
    LET range == visible_range(app)
        active == active_streams(app)
    IN  /\ 0 <= range.top_index
        /\ range.top_index <= range.bottom_index
        /\ range.bottom_index < Len(active)
        /\ RowsTaken(active, range.top_index, range.bottom_index)
             <= app.height - 2

\* C19  The reported range really fits: after every step in which
\* scroll_to_stream(selection_index) ran to its end, if the selected entry
\* is no taller than the usable rows (height - 2), the range recomputed from
\* the new scroll_index and scroll_anchor satisfies
\* 0 <= top_index <= bottom_index < number of active entries, and the heights
\* of the entries top_index..bottom_index add up to at most height - 2.
C19_RangeFits ==
    [][ ( /\ ScrollStep
          /\ ~panicked'
          /\ ActiveCount > 0
          /\ stream_height(active_streams(App')[selection_index' + 1])
               <= height' - 2 )
        => RangeFits(App') ]_vars

\* C19 witness: with 5 usable rows, an expanded entry (6 rows) just above
\* the selection and the Bottom anchor on the selected, collapsed entry: the
\* range is that entry alone and fits.
C19_Witness ==
    /\ ~panicked
    /\ height = 7
    /\ ActiveCount >= 3
    /\ selection_index = 2
    /\ scroll_index = 2
    /\ scroll_anchor = "Bottom"
    /\ ~streams[3].expanded
    /\ streams[2].expanded
    /\ visible_range(App) = [top_index |-> 2, bottom_index |-> 2]
    /\ RangeFits(App)

====
